---- MODULE Spec2Model ----
(***************************************************************************)
(* A model of the LED ring programs of frederikblais/LED.                  *)
(*                                                                         *)
(*   led_controller.py   LEDController: current_mode, is_powered, frames   *)
(*   led_interactive.py  LEDAnimationRunner and main(): a key-reading main *)
(*                       thread and one animation worker thread that polls *)
(*                       runner.current_animation                          *)
(*   led_visualizer.py   LEDVisualizer: a single-threaded matplotlib loop  *)
(*                       whose key handler runs inside plt.pause, so that  *)
(*                       boot_sequence and shutdown_sequence are entered   *)
(*                       re-entrantly from the pauses of one another       *)
(*                                                                         *)
(* The two programs are two specifications over one set of variables:      *)
(* SpecRunner (led_interactive) and SpecVisualizer (led_visualizer).       *)
(*                                                                         *)
(* A frame handed to the display is recorded by what produced it (the      *)
(* function, the phase and the step argument), not by its colours.         *)
(*                                                                         *)
(* Granularity of the worker thread: one loop iteration (the test of       *)
(* current_animation, the frame, the sleep) is one step; an iteration that *)
(* writes two frames with a sleep between them is two steps.               *)
(***************************************************************************)
EXTENDS Integers, Sequences, FiniteSets, TLC

VARIABLES
    current_mode,       \* LEDController.current_mode
    is_powered,         \* LEDController.is_powered
    current_animation,  \* LEDAnimationRunner.current_animation
    threads,            \* the Thread objects not yet collected; the last one
                        \* is main()'s animation_thread
    main_pc,            \* where main() is in its key loop
    key,                \* the key main() is handling
    pixels,             \* the last frame written to the NeoPixel ring
    stack,              \* the visualizer's scripts in progress, innermost first
    position,           \* LEDVisualizer.position
    scatter,            \* the last colours given to scatter.set_color
    open,               \* plt.fignum_exists(fig.number)
    N,                  \* LEDController.num_leds
    loading_tail,       \* LEDController.loading_tail
    spin_tail,          \* LEDController.spin_tail
    black_cache,        \* the lru_cache of LEDController._get_black_array
    call,               \* the last call of a frame function: name and arguments
    colors              \* what that call returned or raised

vars == <<current_mode, is_powered, current_animation, threads, main_pc, key,
          pixels, stack, position, scatter, open, N, loading_tail, spin_tail,
          black_cache, call, colors>>

controller_vars == <<current_mode, is_powered>>
runner_vars == <<current_animation, threads, main_pc, key, pixels>>
visualizer_vars == <<stack, position, scatter, open>>
frame_vars == <<N, loading_tail, spin_tail, black_cache, call, colors>>

----------------------------------------------------------------------------
(* Bounds of the model *)

\* the ring size the visualizer is constructed with: LEDVisualizer(num_leds)
num_leds == 3
\* how many scripts may be in progress inside one another in the visualizer
MaxDepth == 2
\* the ring sizes a controller is constructed with: -1 .. MaxN, and 24
MaxN == 9
\* how far below cell 0 and beyond the last cell the step and position
\* arguments go
MaxOver == 2
\* rings up to this size draw every outcome of get_success_frame's random()
MaxSparkle == 3
\* the intensity 1.0: channel values are integers, in units of 1/Full
Full == 1000

(* Program constants of led_interactive.py *)
RunnerLeds == 24
BootFillFrames == 24
BootPulseFrames == 10
BootSpinFrames == 168
BootWaveFrames == 24
BootSuccessWaves == 3
BootSuccessFrames == 24
BootFadeFrames == 20
ShutWhiteFrames == 20
ShutFlashes == 3
ShutSpinFrames == 48
ShutFadeFrames == 20
SparkleWaves == 3
SparkleFrames == 20
ErrorFrames == 20

(* Program constants of led_controller.py *)
LoadingTailSamples == 8
SpinTailSamples == 6
WaveWidth == 8

(* Program constants of led_visualizer.py *)
VizPulses == 2
VizPulseSamples == 20
VizShutPulses == 3
VizFadeSamples == 30

----------------------------------------------------------------------------
(* Frames, as the display receives them *)

Frame(by, phase, step) == [by |-> by, phase |-> phase, step |-> step]
NoFrame == Frame("none", "none", 0)
\* pixels.fill((0,0,0)) / scatter.set_color([(0,0,0)] * num_leds)
Black(by) == Frame(by, "clear", 0)

----------------------------------------------------------------------------
(* LEDController: state changes *)

set_mode(mode) == current_mode' = mode
power_on == is_powered' = TRUE
power_off == is_powered' = FALSE

SteadyModes == {"loading", "tracking", "error", "success"}

----------------------------------------------------------------------------
(* led_controller.py: the frame functions.  A colour is <<r, g, b>> with   *)
(* each channel in units of 1/Full, products and quotients rounded down.   *)
(* A call returns Ok(cells), the list of colours, or Raise(e), the Python  *)
(* exception that ends it.                                                 *)

Ok(cells) == [err |-> "none", cells |-> cells]
Raise(e) == [err |-> e, cells |-> <<>>]
NoCall == [fn |-> "none", phase |-> "none", step |-> 0]
NoColors == Ok(<<>>)

\* the integer part of the square root of x, 0 <= x <= Full * Full
isqrt(x) == CHOOSE r \in 0..Full : r * r <= x /\ (r + 1) * (r + 1) > x

\* a tail without easing: every sample at full weight
FlatTail(num) == [k \in 1..num |-> Full]

\* [pow(x, 0.5) for x in np.linspace(1, 0, num)]
EasingTail(num) ==
    [k \in 1..num |-> isqrt(((Full * (num - k)) \div (num - 1)) * Full)]

\* Python's a % b for b # 0: the result has the sign of b
py_mod(a, b) == IF b > 0 THEN a % b ELSE -((-a) % (-b))

\* tuple(c * brightness for c in color)
Scale(color, brightness) == [c \in 1..3 |-> (color[c] * brightness) \div Full]

BlackCell == <<0, 0, 0>>
CyanBlue == <<0, Full \div 2, Full>>
DimBlue == <<0, (Full * 2) \div 10, (Full * 4) \div 10>>

\* [color] * N: empty for N <= 0
Uniform(color) == [i \in 1..N |-> color]

\* the lru_cache before the first call of _get_black_array
NotCached == [filled |-> FALSE, cells |-> <<>>]

\* self._get_black_array(): [(0, 0, 0)] * num_leds on the first call, the
\* cached list on every later one
get_black_array ==
    IF black_cache.filled THEN black_cache.cells ELSE Uniform(BlackCell)

\* a caller that writes to the cached list itself, not to a copy of it
cached_shared(result) ==
    [filled |-> TRUE,
     cells |-> IF result.err = "none" THEN result.cells ELSE get_black_array]

\* the cache after a call that began with
\* colors = list(self._get_black_array()): the call writes to its copy
cached_after(result) == [filled |-> TRUE, cells |-> get_black_array]

Write(idx, color) == [idx |-> idx, color |-> color]

\* colors[idx] = color for each write in turn; a Python list takes the
\* indices -len .. len - 1 and raises IndexError for any other
RECURSIVE Store(_, _)
Store(cells, writes) ==
    IF writes = <<>> THEN Ok(cells)
    ELSE LET w == Head(writes)
             i == IF w.idx < 0 THEN w.idx + Len(cells) ELSE w.idx
         IN  IF i < 0 \/ i >= Len(cells) THEN Raise("IndexError")
             ELSE Store([cells EXCEPT ![i + 1] = w.color], Tail(writes))

\* a comet whose tail runs ahead of its head, as the spinners' does
loading_writes_ahead(pos) ==
    [k \in 1..Len(loading_tail) |->
        Write(py_mod(pos + (k - 1), N), Scale(CyanBlue, loading_tail[k]))]

\* the comet of get_loading_frame: (position - t) % num_leds, t = 0, 1, ...
loading_writes(pos) ==
    [k \in 1..Len(loading_tail) |->
        Write(py_mod(pos - (k - 1), N), Scale(CyanBlue, loading_tail[k]))]

get_loading_frame(pos) ==
    IF N = 0 THEN Raise("ZeroDivisionError")
    ELSE Store(get_black_array, loading_writes(pos))

get_tracking_frame(brightness) == Ok(Uniform(<<brightness, brightness, brightness>>))

get_error_frame(brightness) == Ok(Uniform(<<brightness, 0, 0>>))

\* the sparkle boost without the clamp: brightness + 0.3
sparkle_green_unclamped(brightness) == brightness + (Full * 3) \div 10

\* min(1.0, brightness + 0.3)
sparkle_green(brightness) ==
    LET boosted == brightness + (Full * 3) \div 10
    IN  IF boosted < Full THEN boosted ELSE Full

\* sparkles: the cells for which np.random.random() < 0.2
get_success_frame(brightness, sparkles) ==
    Ok([i \in 1..N |-> IF i \in sparkles THEN <<0, sparkle_green(brightness), 0>>
                       ELSE <<0, brightness, 0>>])

\* a fill that stops one cell short: range(step)
fill_cells_short(step) == 0..(step - 1)

\* for i in range(step + 1): colors[i] = (0, 0.2, 0.4)
fill_cells(step) == 0..step
fill_writes(step) ==
    LET cells == fill_cells(step)
    IN  [k \in 1..Cardinality(cells) |->
            Write(CHOOSE i \in cells : Cardinality({j \in cells : j < i}) = k - 1, DimBlue)]

\* the spinner of the boot and shutdown scripts: (step + t) % num_leds
spin_writes(step, color) ==
    [k \in 1..Len(loading_tail) |->
        Write(py_mod(step + (k - 1), N), Scale(color, loading_tail[k]))]

\* the distance one way round only: (i - w) % num_leds
forward_distance(i, w) == py_mod(i - w, N)

\* min((i - wave_position) % num_leds, (wave_position - i) % num_leds)
circular_distance(i, w) ==
    LET a == py_mod(i - w, N)
        b == py_mod(w - i, N)
    IN  IF a < b THEN a ELSE b

\* the cells of the success wave and their colours, i in range(num_leds)
wave_writes(step) ==
    LET wave_position == py_mod(step, N)
        lit == {i \in 0..(N - 1) : circular_distance(i, wave_position) < WaveWidth}
    IN  [k \in 1..Cardinality(lit) |->
            LET i == CHOOSE x \in lit : Cardinality({j \in lit : j < x}) = k - 1
            IN  Write(i, <<0, Full - (circular_distance(i, wave_position) * Full) \div WaveWidth, 0>>)]

\* in the Pulse phase step is a brightness
get_boot_sequence_frame(phase, step) ==
    CASE phase = "fill" -> Store(get_black_array, fill_writes(step))
      [] phase = "pulse" -> Ok(Uniform(Scale(DimBlue, step)))
      [] phase = "spin" ->
           IF N = 0 THEN Raise("ZeroDivisionError")
           ELSE Store(get_black_array, spin_writes(step, CyanBlue))
      [] phase = "success" ->
           IF N = 0 THEN Raise("ZeroDivisionError")
           ELSE Store(get_black_array, wave_writes(step))
      [] phase = "final" -> Ok(Uniform(<<Full, Full, Full>>))
      [] OTHER -> Ok(get_black_array)

\* in the Fade phase step is a brightness; any other phase falls through
\* to the black frame
get_shutdown_sequence_frame(phase, step) ==
    CASE phase = "spin" ->
           IF N = 0 THEN Raise("ZeroDivisionError")
           ELSE Store(get_black_array, spin_writes(step, <<Full, 0, 0>>))
      [] phase = "fade" -> Ok(Uniform(<<(step * 3) \div 10, 0, 0>>))
      [] OTHER -> Ok(get_black_array)

----------------------------------------------------------------------------
(* led_interactive.py: the animation functions, one step at a time.        *)
(* A thread is [anim, phase, step, rep, alive]; each function below maps a *)
(* thread and the value of current_animation it reads to the thread after  *)
(* the step and the frame the step passes to _update_pixels (or NoFrame).  *)

At(t, phase, step, rep) == [t EXCEPT !.phase = phase, !.step = step, !.rep = rep]
Returned(t) == [t EXCEPT !.phase = "done", !.step = 0, !.rep = 0, !.alive = FALSE]
Out(t, frame) == [t |-> t, frame |-> frame]

\* One iteration of  for step in range(len): if not ok: break; <frame>; sleep
Iteration(t, ok, len, frame, after) ==
    IF ~ok THEN Out(after, NoFrame)
    ELSE Out(IF t.step + 1 < len THEN [t EXCEPT !.step = @ + 1] ELSE after, frame)

boot_sequence(t, flag) ==
    LET ok == flag = "boot"
        fr == Frame("boot", t.phase, t.step)
    IN  CASE t.phase = "fill" ->
               Iteration(t, ok, BootFillFrames, fr, At(t, "pulse", 0, 0))
          [] t.phase = "pulse" ->
               Iteration(t, ok, BootPulseFrames, fr, At(t, "spin", 0, 0))
          [] t.phase = "spin" ->
               Iteration(t, ok, BootSpinFrames, fr, At(t, "wave", 0, 0))
          [] t.phase = "wave" ->
               Iteration(t, ok, BootWaveFrames, fr, At(t, "success", 0, 0))
          [] t.phase = "success" ->
               \* the break leaves the inner loop only
               Iteration(t, ok, BootSuccessFrames, fr,
                         IF t.rep + 1 < BootSuccessWaves
                         THEN At(t, "success", 0, t.rep + 1)
                         ELSE At(t, "fade", 0, 0))
          [] t.phase = "fade" ->
               \* current_animation is read once, before the first frame
               IF t.step = 0 /\ ~ok THEN Out(Returned(t), NoFrame)
               ELSE Out(IF t.step + 1 < BootFadeFrames
                        THEN [t EXCEPT !.step = @ + 1]
                        ELSE At(t, "final", 0, 0), fr)
          [] t.phase = "final" -> Out(Returned(t), fr)

shutdown_sequence(t, flag) ==
    LET ok == flag = "shutdown"
        fr == Frame("shutdown", t.phase, t.step)
    IN  CASE t.phase = "white" ->
               Iteration(t, ok, ShutWhiteFrames, fr, At(t, "flash_on", 0, 0))
          [] t.phase = "flash_on" ->
               IF ~ok THEN Out(At(t, "spin", 0, 0), NoFrame)
               ELSE Out(At(t, "flash_off", 0, t.rep), fr)
          [] t.phase = "flash_off" ->
               Out(IF t.rep + 1 < ShutFlashes
                   THEN At(t, "flash_on", 0, t.rep + 1)
                   ELSE At(t, "spin", 0, 0), fr)
          [] t.phase = "spin" ->
               \* the frame's argument is position = step % 24
               Iteration(t, ok, ShutSpinFrames,
                         Frame("shutdown", "spin", t.step % RunnerLeds),
                         At(t, "fade", 0, 0))
          [] t.phase = "fade" ->
               Iteration(t, ok, ShutFadeFrames, fr, At(t, "clear", 0, 0))
          [] t.phase = "clear" -> Out(Returned(t), Black("shutdown"))

\* a loading loop that never reads current_animation: while True
loading_forever(t, flag) ==
    Out([t EXCEPT !.step = (@ + 1) % RunnerLeds], Frame("loading", "loop", t.step))

loading_animation(t, flag) ==
    IF flag = "loading"
    THEN Out([t EXCEPT !.step = (@ + 1) % RunnerLeds], Frame("loading", "loop", t.step))
    ELSE Out(Returned(t), NoFrame)

tracking_animation(t, flag) ==
    CASE t.phase = "on" ->
           IF flag = "tracking"
           THEN Out(At(t, "off", 0, 0), Frame("tracking", "on", 0))
           ELSE Out(Returned(t), NoFrame)
      [] t.phase = "off" -> Out(At(t, "on", 0, 0), Frame("tracking", "off", 0))

success_animation(t, flag) ==
    CASE t.phase = "flash" ->
           Out(At(t, "sparkle", 0, 0), Frame("success", "flash", 0))
      [] t.phase = "sparkle" ->
           Iteration(t, flag = "success", SparkleFrames,
                     Frame("success", "sparkle", t.step),
                     IF t.rep + 1 < SparkleWaves
                     THEN At(t, "sparkle", 0, t.rep + 1)
                     ELSE Returned(t))

error_animation(t, flag) ==
    CASE t.phase = "while" ->
           IF flag = "error" THEN Out(At(t, "pulse", 0, 0), NoFrame)
           ELSE Out(Returned(t), NoFrame)
      [] t.phase = "pulse" ->
           Iteration(t, flag = "error", ErrorFrames,
                     Frame("error", "pulse", t.step), At(t, "while", 0, 0))

FirstPhase(anim) ==
    CASE anim = "boot" -> "fill"
      [] anim = "shutdown" -> "white"
      [] anim = "loading" -> "loop"
      [] anim = "tracking" -> "on"
      [] anim = "success" -> "flash"
      [] anim = "error" -> "while"

\* threading.Thread(target=runner.<anim>) once started
Thread(anim) ==
    [anim |-> anim, phase |-> FirstPhase(anim), step |-> 0, rep |-> 0, alive |-> TRUE]

target(t, flag) ==
    CASE t.anim = "boot" -> boot_sequence(t, flag)
      [] t.anim = "shutdown" -> shutdown_sequence(t, flag)
      [] t.anim = "loading" -> loading_animation(t, flag)
      [] t.anim = "tracking" -> tracking_animation(t, flag)
      [] t.anim = "success" -> success_animation(t, flag)
      [] t.anim = "error" -> error_animation(t, flag)

----------------------------------------------------------------------------
(* led_interactive.py: the worker threads *)

\* main()'s animation_thread; None before the first animation key
NoThread == [anim |-> "none", phase |-> "done", step |-> 0, rep |-> 0, alive |-> FALSE]
animation_thread == IF threads = <<>> THEN NoThread ELSE threads[Len(threads)]
is_alive(t) == t.alive
Alive == {i \in DOMAIN threads : is_alive(threads[i])}

\* A step of thread i, running the function it was started with
Run(i) ==
    /\ i \in Alive
    /\ LET r == target(threads[i], current_animation)
       IN  /\ threads' = [threads EXCEPT ![i] = r.t]
           /\ pixels' = IF r.frame = NoFrame THEN pixels ELSE r.frame
    /\ UNCHANGED <<current_animation, main_pc, key>>
    /\ UNCHANGED <<controller_vars, visualizer_vars, frame_vars>>

BootSequenceStep(i) == i \in DOMAIN threads /\ threads[i].anim = "boot" /\ Run(i)
ShutdownSequenceStep(i) == i \in DOMAIN threads /\ threads[i].anim = "shutdown" /\ Run(i)
LoadingAnimationStep(i) == i \in DOMAIN threads /\ threads[i].anim = "loading" /\ Run(i)
TrackingAnimationStep(i) == i \in DOMAIN threads /\ threads[i].anim = "tracking" /\ Run(i)
SuccessAnimationStep(i) == i \in DOMAIN threads /\ threads[i].anim = "success" /\ Run(i)
ErrorAnimationStep(i) == i \in DOMAIN threads /\ threads[i].anim = "error" /\ Run(i)

----------------------------------------------------------------------------
(* led_interactive.py: main() *)

AnimationKeys == {"1", "2", "3", "4", "5", "6"}
MenuKeys == AnimationKeys \cup {"c", "q"}
OtherKeys == {"x"}

AnimationOf(k) ==
    CASE k = "1" -> "boot"
      [] k = "2" -> "tracking"
      [] k = "3" -> "loading"
      [] k = "4" -> "success"
      [] k = "5" -> "error"
      [] k = "6" -> "shutdown"

\* key = get_key(); runner.current_animation = None
GetKey(k) ==
    /\ main_pc = "get_key"
    /\ IF k \in MenuKeys
       THEN /\ current_animation' = "None"
            /\ key' = k
            /\ main_pc' = "join"
       ELSE UNCHANGED <<current_animation, key, main_pc>>
    /\ UNCHANGED <<threads, pixels, controller_vars, visualizer_vars, frame_vars>>

\* main() going on without waiting for the animation thread
JoinSkipped == TRUE

\* if animation_thread and animation_thread.is_alive(): animation_thread.join()
\* goes on once there is no thread or the thread has returned
JoinReturns == IF threads = <<>> THEN TRUE ELSE ~is_alive(animation_thread)

Join ==
    /\ main_pc = "join"
    /\ JoinReturns
    /\ main_pc' = IF key \in AnimationKeys THEN "select" ELSE "clear"
    /\ UNCHANGED <<current_animation, threads, key, pixels>>
    /\ UNCHANGED <<controller_vars, visualizer_vars, frame_vars>>

\* runner.clear(), then break ('q') or print_menu() ('c')
Clear ==
    /\ main_pc = "clear"
    /\ pixels' = Black("main")
    /\ main_pc' = IF key = "q" THEN "exited" ELSE "get_key"
    /\ key' = "none"
    /\ UNCHANGED <<current_animation, threads, controller_vars, visualizer_vars, frame_vars>>

\* runner.current_animation = '<anim>'
Select ==
    /\ main_pc = "select"
    /\ current_animation' = AnimationOf(key)
    /\ main_pc' = "start"
    /\ UNCHANGED <<threads, key, pixels, controller_vars, visualizer_vars, frame_vars>>

\* animation_thread = threading.Thread(target=...); animation_thread.start()
\* Thread objects that have returned and are no longer referenced are dropped.
Start ==
    /\ main_pc = "start"
    /\ threads' = Append(SelectSeq(threads, is_alive), Thread(AnimationOf(key)))
    /\ main_pc' = "get_key"
    /\ key' = "none"
    /\ UNCHANGED <<current_animation, pixels, controller_vars, visualizer_vars, frame_vars>>

InitRunner ==
    /\ current_mode = "off"
    /\ is_powered = FALSE
    /\ current_animation = "None"
    /\ threads = <<>>
    /\ main_pc = "get_key"
    /\ key = "none"
    /\ pixels = Black("init")
    /\ stack = <<>>
    /\ position = 0
    /\ scatter = Black("init")
    /\ open = TRUE
    /\ N = RunnerLeds
    /\ loading_tail = EasingTail(LoadingTailSamples)
    /\ spin_tail = EasingTail(SpinTailSamples)
    /\ black_cache = NotCached
    /\ call = NoCall
    /\ colors = NoColors

NextRunner ==
    \/ \E k \in MenuKeys \cup OtherKeys : GetKey(k)
    \/ Join
    \/ Clear
    \/ Select
    \/ Start
    \/ \E i \in DOMAIN threads : BootSequenceStep(i)
    \/ \E i \in DOMAIN threads : ShutdownSequenceStep(i)
    \/ \E i \in DOMAIN threads : LoadingAnimationStep(i)
    \/ \E i \in DOMAIN threads : TrackingAnimationStep(i)
    \/ \E i \in DOMAIN threads : SuccessAnimationStep(i)
    \/ \E i \in DOMAIN threads : ErrorAnimationStep(i)

SpecRunner == InitRunner /\ [][NextRunner]_vars

\* a step of any animation thread
WorkerStep == \E i \in DOMAIN threads : Run(i)

\* SpecRunner under fair scheduling: a thread that has not returned goes on
\* running (every time.sleep ends and the interpreter hands it the lock
\* again), and main() goes on once its join() can return.  Keys are under
\* no fairness: the user may never press one.
FairSpecRunner ==
    /\ InitRunner
    /\ [][NextRunner]_vars
    /\ WF_vars(WorkerStep)
    /\ WF_vars(Join)

----------------------------------------------------------------------------
(* led_interactive.py: the colours of the frames.  FrameColors(f, sparkles) *)
(* is the list that the animation function passes to _update_pixels (or     *)
(* that pixels.fill sets) for the frame recorded as f, computed as the      *)
(* function computes it on the runner's controller.                         *)

\* math.sin(step * 0.3) for step in range(20), in thousandths
SinSamples ==
    <<0, 296, 565, 783, 932, 997, 974, 863, 675, 427,
      141, -158, -443, -688, -872, -978, -996, -926, -773, -551>>

\* brightness = 0.7 + (math.sin(step * 0.3) * 0.3)
sparkle_brightness(step) ==
    (Full * 7) \div 10 + (((SinSamples[step + 1] * Full) \div 1000) * 3) \div 10

\* brightness = math.pow(1 - (step / 20), 2)
error_brightness(step) ==
    LET x == Full - (step * Full) \div 20
    IN  (x * x) \div Full

\* the channel sums of a cell-wise blend that keeps the first frame only
blend_first(a, b) == a

\* (g[0] + w[0], g[1] + w[1], g[2] + w[2])
blend_add(a, b) == <<a[1] + b[1], a[2] + b[2], a[3] + b[3]>>

\* the final fade of boot_sequence: progress = step / 20, green plus white
crossfade(step) ==
    LET progress == (step * Full) \div 20
        green == Uniform(<<0, Full - progress, 0>>)
        white == Uniform(<<progress, progress, progress>>)
    IN  [i \in 1..N |-> blend_add(green[i], white[i])]

\* the completion wave of boot_sequence: the last spinner frame with
\* (0, 1, 0) at (167 + i) % 24 for i in range(step + 1)
completion_wave(step) ==
    Store(get_boot_sequence_frame("spin", BootSpinFrames - 1).cells,
          [k \in 1..(step + 1) |->
              Write((BootSpinFrames - 1 + (k - 1)) % RunnerLeds, <<0, Full, 0>>)]).cells

\* progress = (20 - step) / 20
fade_down(step) == ((20 - step) * Full) \div 20

FrameColors(f, sparkles) ==
    CASE f.phase = "clear" -> Uniform(BlackCell)
      [] f.by = "boot" /\ f.phase = "pulse" ->
           get_boot_sequence_frame("pulse", (f.step * Full) \div 10).cells
      [] f.by = "boot" /\ f.phase = "wave" -> completion_wave(f.step)
      [] f.by = "boot" /\ f.phase = "fade" -> crossfade(f.step)
      [] f.by = "boot" /\ f.phase = "final" ->
           get_boot_sequence_frame("final", 0).cells
      [] f.by = "boot" /\ f.phase \in {"fill", "spin", "success"} ->
           get_boot_sequence_frame(f.phase, f.step).cells
      [] f.by = "shutdown" /\ f.phase = "white" ->
           Uniform(<<fade_down(f.step), fade_down(f.step), fade_down(f.step)>>)
      [] f.by = "shutdown" /\ f.phase = "flash_on" -> Uniform(<<(Full * 8) \div 10, 0, 0>>)
      [] f.by = "shutdown" /\ f.phase = "flash_off" -> Uniform(BlackCell)
      [] f.by = "shutdown" /\ f.phase = "spin" ->
           get_shutdown_sequence_frame("spin", f.step).cells
      [] f.by = "shutdown" /\ f.phase = "fade" ->
           get_shutdown_sequence_frame("fade", fade_down(f.step)).cells
      [] f.by = "loading" -> get_loading_frame(f.step).cells
      [] f.by = "tracking" ->
           get_tracking_frame(IF f.phase = "on" THEN Full ELSE 0).cells
      [] f.by = "success" /\ f.phase = "flash" -> get_success_frame(Full, sparkles).cells
      [] f.by = "success" /\ f.phase = "sparkle" ->
           get_success_frame(sparkle_brightness(f.step), sparkles).cells
      [] f.by = "error" -> get_error_frame(error_brightness(f.step)).cells

\* int(c * 255) of _update_pixels
to_byte(c) == (c * 255) \div Full

----------------------------------------------------------------------------
(* led_visualizer.py.  Everything runs on one thread.  on_key_press is     *)
(* called by matplotlib from inside plt.pause: from the pause of run(), or *)
(* from a pause of a boot_sequence or shutdown_sequence that an earlier    *)
(* on_key_press has not yet returned from.  Every state of the model is a  *)
(* state inside such a pause.  A script in progress is                     *)
(*   [script, phase, step, rep, sel, keys]                                 *)
(* the frame it showed last, and two history fields: sel, the mode a key   *)
(* selected during a pause of its Spin phase ("none" if none did), and     *)
(* keys, whether a key changed anything during one of its pauses.          *)

Script(script, phase) ==
    [script |-> script, phase |-> phase, step |-> 0, rep |-> 0,
     sel |-> "none", keys |-> FALSE]
Shown(f) == Frame(f.script, f.phase, f.step)
Phase(f, phase, rep) == [f EXCEPT !.phase = phase, !.step = 0, !.rep = rep]
Return(f) == Phase(f, "return", 0)
NextStep(f, len, after) == IF f.step + 1 < len THEN [f EXCEPT !.step = @ + 1] ELSE after

\* the frame boot_sequence shows after the pause of frame f, or Return
boot_frames(f) ==
    CASE f.phase = "fill" -> NextStep(f, num_leds, Phase(f, "pulse_out", 0))
      [] f.phase = "pulse_out" -> NextStep(f, VizPulseSamples, Phase(f, "pulse_in", f.rep))
      [] f.phase = "pulse_in" ->
           NextStep(f, VizPulseSamples,
                    IF f.rep + 1 < VizPulses THEN Phase(f, "pulse_out", f.rep + 1)
                    ELSE Phase(f, "spin", 0))
      [] f.phase = "spin" -> NextStep(f, num_leds * 2, Return(f))

\* the frame shutdown_sequence shows after the pause of frame f, or Return;
\* in the Pulse phase step is the argument passed: 0, then 1
shutdown_frames(f) ==
    CASE f.phase = "pulse" ->
           NextStep(f, 2, IF f.rep + 1 < VizShutPulses THEN Phase(f, "pulse", f.rep + 1)
                          ELSE Phase(f, "wipe", 0))
      [] f.phase = "wipe" -> NextStep(f, num_leds, Phase(f, "fade", 0))
      [] f.phase = "fade" -> NextStep(f, VizFadeSamples, Return(f))

\* the script whose pause is running has handled a key
Interrupted(selected) ==
    IF stack = <<>> THEN stack
    ELSE LET f == Head(stack)
         IN  <<[f EXCEPT !.keys = TRUE,
                         !.sel = IF f.script = "boot" /\ f.phase = "spin" /\ selected # "none"
                                 THEN selected ELSE @]>> \o Tail(stack)

modes == <<"loading", "tracking", "error", "success">>
index(mode) == CHOOSE i \in DOMAIN modes : modes[i] = mode

\* Python's list index is 0-based: modes[(current_idx +- 1) % len(modes)]
handle_mode_change(k) ==
    LET current_idx == IF current_mode \in SteadyModes THEN index(current_mode) - 1 ELSE 0
        new_idx == (current_idx + (IF k = "right" THEN 1 ELSE -1)) % Len(modes)
    IN  modes[new_idx + 1]

VizKeys == {"escape", "b", "v", "left", "right", "x"}

on_key_press(k) ==
    /\ open
    /\ IF k = "escape"
       THEN /\ open' = FALSE
            /\ UNCHANGED <<controller_vars, stack, position, scatter>>
       ELSE IF ~is_powered /\ k # "b"
       THEN UNCHANGED <<controller_vars, visualizer_vars, frame_vars>>
       ELSE IF k \in {"left", "right"} /\ is_powered
       THEN /\ set_mode(handle_mode_change(k))
            /\ stack' = Interrupted(handle_mode_change(k))
            /\ UNCHANGED <<is_powered, position, scatter, open>>
       ELSE IF k = "b" /\ ~is_powered
       THEN \* power_on(); boot_sequence() up to its first pause
            /\ Len(stack) < MaxDepth
            /\ power_on
            /\ stack' = <<Script("boot", "fill")>> \o Interrupted("none")
            /\ scatter' = Frame("boot", "fill", 0)
            /\ UNCHANGED <<current_mode, position, open>>
       ELSE IF k = "v" /\ is_powered
       THEN \* shutdown_sequence() up to its first pause
            /\ Len(stack) < MaxDepth
            /\ stack' = <<Script("shutdown", "pulse")>> \o Interrupted("none")
            /\ scatter' = Frame("shutdown", "pulse", 0)
            /\ UNCHANGED <<controller_vars, position, open>>
       ELSE UNCHANGED <<controller_vars, visualizer_vars, frame_vars>>
    /\ UNCHANGED <<runner_vars, frame_vars>>

\* boot_sequence: its pause ends; the next frame, or set_mode('loading') and return
BootSequence ==
    /\ stack # <<>>
    /\ Head(stack).script = "boot"
    /\ LET f == boot_frames(Head(stack))
       IN  IF f.phase = "return"
           THEN /\ set_mode("loading")
                /\ stack' = Tail(stack)
                /\ UNCHANGED scatter
           ELSE /\ stack' = <<f>> \o Tail(stack)
                /\ scatter' = Shown(f)
                /\ UNCHANGED current_mode
    /\ UNCHANGED <<is_powered, position, open, runner_vars, frame_vars>>

\* shutdown_sequence: its pause ends; the next frame, or clear_display(),
\* power_off() and return
ShutdownSequence ==
    /\ stack # <<>>
    /\ Head(stack).script = "shutdown"
    /\ LET f == shutdown_frames(Head(stack))
       IN  IF f.phase = "return"
           THEN /\ scatter' = Black("shutdown")
                /\ power_off
                /\ stack' = Tail(stack)
           ELSE /\ stack' = <<f>> \o Tail(stack)
                /\ scatter' = Shown(f)
                /\ UNCHANGED is_powered
    /\ UNCHANGED <<current_mode, position, open, runner_vars, frame_vars>>

\* one turn of run()'s loop, from one pause to the next.  The brightness
\* counters of the tracking, error and success modes only colour the frame
\* and are left out; a mode outside the four leaves colors unbound, and the
\* NameError ends run() (finally: plt.close('all')).
RunLoop ==
    /\ stack = <<>>
    /\ open
    /\ IF ~is_powered
       THEN UNCHANGED <<position, scatter, open>>
       ELSE IF current_mode = "loading"
       THEN /\ scatter' = Frame("loading", "loop", position)
            /\ position' = (position - 1) % num_leds
            /\ UNCHANGED open
       ELSE IF current_mode \in SteadyModes
       THEN /\ scatter' = Frame(current_mode, "loop", 0)
            /\ UNCHANGED <<position, open>>
       ELSE /\ open' = FALSE
            /\ UNCHANGED <<position, scatter>>
    /\ UNCHANGED <<controller_vars, stack, runner_vars, frame_vars>>

\* run() up to its first pause: clear_display(), position = 0
InitVisualizer ==
    /\ current_mode = "off"
    /\ is_powered = FALSE
    /\ current_animation = "None"
    /\ threads = <<>>
    /\ main_pc = "get_key"
    /\ key = "none"
    /\ pixels = Black("init")
    /\ stack = <<>>
    /\ position = 0
    /\ scatter = Black("run")
    /\ open = TRUE
    /\ N = num_leds
    /\ loading_tail = EasingTail(LoadingTailSamples)
    /\ spin_tail = EasingTail(SpinTailSamples)
    /\ black_cache = NotCached
    /\ call = NoCall
    /\ colors = NoColors

NextVisualizer ==
    \/ \E k \in VizKeys : on_key_press(k)
    \/ BootSequence
    \/ ShutdownSequence
    \/ RunLoop

SpecVisualizer == InitVisualizer /\ [][NextVisualizer]_vars

----------------------------------------------------------------------------
(* led_controller.py, the frame functions on their own: a controller is    *)
(* constructed with some ring size and its frame functions are called with *)
(* arguments from bounded sets, in any order.                              *)

\* the ring sizes LEDController is constructed with
RingSizes == ((0 - 1)..MaxN) \cup {RunnerLeds}

\* the step and position arguments: every cell of the ring, and MaxOver
\* values below zero and beyond the last cell
Steps ==
    LET size == IF N < 0 THEN 0 - N ELSE N
    IN  (0 - MaxOver)..(size - 1 + MaxOver)

\* the brightness arguments
Brightnesses == {0, Full \div 4, Full \div 2, (Full * 8) \div 10, Full}

\* the outcomes of np.random.random() < 0.2 over the cells: every one on a
\* small ring, and none, all, the first or the last cell on a larger one
SparkleSets ==
    IF N <= MaxSparkle THEN SUBSET (1..N)
    ELSE {{}, 1..N, {1}, {N}}

BootPhases == {"fill", "pulse", "spin", "success", "final"}
ShutdownPhases == {"spin", "fade", "pulse", "wipe"}
Arguments(phase) == IF phase \in {"pulse", "fade"} THEN Brightnesses ELSE Steps

Called(fn, phase, step) == [fn |-> fn, phase |-> phase, step |-> step]

GetLoadingFrame ==
    /\ \E pos \in Steps :
          /\ call' = Called("get_loading_frame", "none", pos)
          /\ colors' = get_loading_frame(pos)
          /\ black_cache' = cached_after(get_loading_frame(pos))
    /\ UNCHANGED <<N, loading_tail, spin_tail>>
    /\ UNCHANGED <<controller_vars, runner_vars, visualizer_vars>>

GetTrackingFrame ==
    /\ \E brightness \in Brightnesses :
          /\ call' = Called("get_tracking_frame", "none", brightness)
          /\ colors' = get_tracking_frame(brightness)
    /\ UNCHANGED <<N, loading_tail, spin_tail, black_cache>>
    /\ UNCHANGED <<controller_vars, runner_vars, visualizer_vars>>

GetErrorFrame ==
    /\ \E brightness \in Brightnesses :
          /\ call' = Called("get_error_frame", "none", brightness)
          /\ colors' = get_error_frame(brightness)
    /\ UNCHANGED <<N, loading_tail, spin_tail, black_cache>>
    /\ UNCHANGED <<controller_vars, runner_vars, visualizer_vars>>

GetSuccessFrame ==
    /\ \E brightness \in Brightnesses, sparkles \in SparkleSets :
          /\ call' = Called("get_success_frame", "none", brightness)
          /\ colors' = get_success_frame(brightness, sparkles)
    /\ UNCHANGED <<N, loading_tail, spin_tail, black_cache>>
    /\ UNCHANGED <<controller_vars, runner_vars, visualizer_vars>>

GetBootSequenceFrame ==
    /\ \E phase \in BootPhases : \E step \in Arguments(phase) :
          /\ call' = Called("get_boot_sequence_frame", phase, step)
          /\ colors' = get_boot_sequence_frame(phase, step)
          /\ black_cache' = cached_after(get_boot_sequence_frame(phase, step))
    /\ UNCHANGED <<N, loading_tail, spin_tail>>
    /\ UNCHANGED <<controller_vars, runner_vars, visualizer_vars>>

GetShutdownSequenceFrame ==
    /\ \E phase \in ShutdownPhases : \E step \in Arguments(phase) :
          /\ call' = Called("get_shutdown_sequence_frame", phase, step)
          /\ colors' = get_shutdown_sequence_frame(phase, step)
          /\ black_cache' = cached_after(get_shutdown_sequence_frame(phase, step))
    /\ UNCHANGED <<N, loading_tail, spin_tail>>
    /\ UNCHANGED <<controller_vars, runner_vars, visualizer_vars>>

\* LEDController(num_leds), for any integer num_leds of RingSizes
InitFrames ==
    /\ current_mode = "off"
    /\ is_powered = FALSE
    /\ current_animation = "None"
    /\ threads = <<>>
    /\ main_pc = "get_key"
    /\ key = "none"
    /\ pixels = Black("init")
    /\ stack = <<>>
    /\ position = 0
    /\ scatter = Black("init")
    /\ open = FALSE
    /\ N \in RingSizes
    /\ loading_tail = EasingTail(LoadingTailSamples)
    /\ spin_tail = EasingTail(SpinTailSamples)
    /\ black_cache = NotCached
    /\ call = NoCall
    /\ colors = NoColors

NextFrames ==
    \/ GetLoadingFrame
    \/ GetTrackingFrame
    \/ GetErrorFrame
    \/ GetSuccessFrame
    \/ GetBootSequenceFrame
    \/ GetShutdownSequenceFrame

SpecFrames == InitFrames /\ [][NextFrames]_vars

----------------------------------------------------------------------------
(* Properties of led_interactive.py, under SpecRunner *)

\* the step passes a frame of a script to _update_pixels (shutdown's closing
\* clear() goes through pixels.fill instead)
ScriptFrameWritten ==
    /\ pixels' # pixels
    /\ pixels'.by \in {"boot", "shutdown"}
    /\ pixels'.phase # "clear"

\* C1: boot_sequence and shutdown_sequence consult current_animation before
\* every single frame: a frame of a script is passed to _update_pixels only
\* by a step that found current_animation still naming that script, so that
\* once the flag has been changed no further frame of the phase in progress
\* or of a later phase is written.
C1_AbortBeforeEveryFrame ==
    [][ScriptFrameWritten => current_animation = pixels'.by]_vars

\* main() reads the key of the animation that is selected and running
SameModeRequested ==
    /\ main_pc = "get_key"
    /\ main_pc' = "join"
    /\ key' \in AnimationKeys
    /\ AnimationOf(key') = current_animation
    /\ is_alive(animation_thread)

\* C8: requesting the mode that is already active is a no-op: the key does
\* not invalidate current_animation and does not stop or restart the running
\* animation thread.
C8_IdempotentSelect ==
    [][SameModeRequested => UNCHANGED <<current_animation, threads, pixels>>]_vars

\* C9: at most one animation thread is alive at any time, and when main() is
\* about to select and start a new animation (after its join) no animation
\* thread is alive.
C9_AtMostOneThread ==
    /\ Cardinality(Alive) <= 1
    /\ main_pc \in {"select", "start"} => Alive = {}

\* C9 happens: a second animation runs, started after the first (whose last
\* frame is still on the ring) was cancelled and joined.
C9_Witness ==
    /\ Len(threads) = 1
    /\ is_alive(threads[1])
    /\ threads[1].anim = "tracking"
    /\ current_animation = "tracking"
    /\ pixels.by = "loading"

\* thread i returns in this step
ThreadReturns(i) ==
    /\ i \in DOMAIN threads'
    /\ threads'[i].anim = threads[i].anim
    /\ is_alive(threads[i])
    /\ ~is_alive(threads'[i])

\* C10: a steady-state animation (loading, tracking, error, success) never
\* ends on its own: its thread returns only in a step that found
\* current_animation changed away from it.
C10_SteadyLoopsUntilCancelled ==
    [][\A i \in DOMAIN threads :
          (threads[i].anim \in SteadyModes /\ ThreadReturns(i))
              => current_animation # threads[i].anim]_vars

----------------------------------------------------------------------------
(* Properties of led_visualizer.py, under SpecVisualizer *)

\* the innermost script in progress is `script`, in the pause after its last frame
AtLastPause(script) ==
    /\ stack # <<>>
    /\ Head(stack).script = script
    /\ (IF script = "boot" THEN boot_frames(Head(stack))
                           ELSE shutdown_frames(Head(stack))).phase = "return"

BootReturns == AtLastPause("boot") /\ BootSequence
ShutdownReturns == AtLastPause("shutdown") /\ ShutdownSequence

\* a mode was selected by a key during the Spin phase of the innermost boot script
SelectedInSpin ==
    /\ stack # <<>>
    /\ Head(stack).script = "boot"
    /\ Head(stack).sel # "none"

\* C2: once a mode has been selected during the Spin phase of boot_sequence,
\* the script shows no further frame: its next step is its return, and
\* current_mode is then the selected mode, not 'loading'.
C2_SpinSelectionAbortsBoot ==
    [][(SelectedInSpin /\ BootSequence)
          => (stack' = Tail(stack) /\ current_mode' = Head(stack).sel)]_vars

\* the innermost script was started from the pause of run() and no key has
\* changed anything during its pauses
Uninterrupted == Len(stack) = 1 /\ ~Head(stack).keys

\* C3: a boot script that runs to completion without interruption ends with
\* is_powered = True and current_mode = 'loading'; a shutdown script that
\* runs to completion without interruption ends with is_powered = False and
\* current_mode = 'off'.
C3_TerminalModes ==
    [][/\ (BootReturns /\ Uninterrupted)
            => (is_powered' = TRUE /\ current_mode' = "loading")
       /\ (ShutdownReturns /\ Uninterrupted)
            => (is_powered' = FALSE /\ current_mode' = "off")]_vars

\* C4: whenever the controller is unpowered its mode is 'off'.
C4_UnpoweredIsOff == ~is_powered => current_mode = "off"

\* C5: is_powered becomes True only in the step in which a boot script
\* returns, and becomes False only in the step in which a shutdown script
\* returns.
C5_PowerChangesOnCompletion ==
    [][/\ (~is_powered /\ is_powered') => BootReturns
       /\ (is_powered /\ ~is_powered') => ShutdownReturns]_vars

\* C6: a 'b' or 'v' key handled during a pause of boot_sequence or
\* shutdown_sequence never starts a second script inside the first.
C6_NoNestedScript == Len(stack) <= 1

\* C7: set_mode is executed with a steady-state mode only while is_powered
\* holds, and a key other than 'b' handled while unpowered leaves
\* current_mode and is_powered unchanged.
C7_SteadyModeOnlyWhilePowered ==
    [][/\ ((BootReturns \/ current_mode' # current_mode) /\ current_mode' \in SteadyModes)
            => is_powered
       /\ \A k \in VizKeys \ {"b"} :
            (~is_powered /\ on_key_press(k)) => UNCHANGED controller_vars]_vars

----------------------------------------------------------------------------
(* Properties of led_controller.py, under SpecFrames *)

\* the cells of the returned frame that are not (0, 0, 0), as list indices
NonBlack == {i \in 0..(Len(colors.cells) - 1) : colors.cells[i + 1] # BlackCell}

wrap(p) == py_mod(p, N)

LoadingCalled == call.fn = "get_loading_frame"

\* the cell t places behind the head of the comet
TailCell(t) == colors.cells[wrap(call.step - t) + 1]

\* brightness does not increase from the head along the tail
TailFades ==
    \A t \in 0..(Len(loading_tail) - 2) : TailCell(t)[3] >= TailCell(t + 1)[3]

\* C11 as it is stated: for every N > 0 and every position p,
\* get_loading_frame(p) has exactly len(loading_tail) non-black cells,
\* brightness does not increase along the tail, and the head cell wrap(p)
\* has the full brightness of t = 0.
C11_TailLengthCellsLit ==
    (LoadingCalled /\ N > 0) =>
        /\ colors.err = "none"
        /\ Cardinality(NonBlack) = Len(loading_tail)
        /\ TailFades
        /\ TailCell(0) = CyanBlue

\* C11, amended: for every N >= len(loading_tail) and every position p,
\* get_loading_frame(p) lights exactly the len(loading_tail) - 1 cells
\* wrap(p - t), t = 0 .. len(loading_tail) - 2 (the last weight of the tail
\* is 0, so its cell stays black), brightness does not increase along the
\* tail, and the head cell wrap(p) has the full brightness of t = 0.
C11_LoadingComet ==
    (LoadingCalled /\ N >= Len(loading_tail)) =>
        /\ colors.err = "none"
        /\ NonBlack = {wrap(call.step - t) : t \in 0..(Len(loading_tail) - 2)}
        /\ Cardinality(NonBlack) = Len(loading_tail) - 1
        /\ TailFades
        /\ TailCell(0) = CyanBlue

\* a comet whose tail wraps around the start of the ring
C11_Witness ==
    /\ LoadingCalled
    /\ N >= Len(loading_tail)
    /\ call.step = 2
    /\ colors.err = "none"
    /\ {0, N - 1} \subseteq NonBlack
    /\ Cardinality(NonBlack) = Len(loading_tail) - 1

\* get_loading_frame(0) on the ring of 24
LoadingScenario == LoadingCalled /\ N = RunnerLeds /\ call.step = 0

\* C12 as it is stated: on a ring of 24, get_loading_frame(0) has cell 0 at
\* full cyan-blue (0, 0.5, 1.0), cell 23 at the weight of t = 1, and cells
\* 12..22 black.
C12_Cells12To22Black ==
    LoadingScenario =>
        /\ colors.cells[0 + 1] = CyanBlue
        /\ colors.cells[23 + 1] = Scale(CyanBlue, loading_tail[2])
        /\ \A i \in 12..22 : colors.cells[i + 1] = BlackCell

\* C12, amended: on a ring of 24 and with the tail of 8 samples that the
\* controller computes, get_loading_frame(0) has cell 0 at full cyan-blue
\* (0, 0.5, 1.0), cell 23 at the weight of t = 1, cells 18..22 lit by the
\* rest of the tail, and cells 1..17 black.
C12_LoadingScenario ==
    LoadingScenario =>
        /\ Len(loading_tail) = LoadingTailSamples
        /\ colors.cells[0 + 1] = CyanBlue
        /\ colors.cells[23 + 1] = Scale(CyanBlue, loading_tail[2])
        /\ colors.cells[23 + 1] # BlackCell
        /\ \A i \in 18..22 : colors.cells[i + 1] # BlackCell
        /\ \A i \in 1..17 : colors.cells[i + 1] = BlackCell

C12_Witness ==
    /\ LoadingScenario
    /\ colors.err = "none"
    /\ Len(colors.cells) = RunnerLeds
    /\ NonBlack = {0} \cup (18..23)

FillCalled == call.fn = "get_boot_sequence_frame" /\ call.phase = "fill"

\* the lit cells of a frame, as list indices
Lit(frame) == {i \in 0..(Len(frame.cells) - 1) : frame.cells[i + 1] # BlackCell}

\* C13: for every N > 0 and every step with 0 <= step < N,
\* get_boot_sequence_frame('fill', step) sets exactly the cells 0..step to
\* (0, 0.2, 0.4) and leaves every other cell black; from one step to the
\* next the lit cells grow by exactly the cell step, and the last step of
\* the Fill phase (N - 1; BootFillFrames - 1 on the runner's ring) lights
\* the whole ring.
C13_BootFill ==
    (FillCalled /\ N > 0 /\ 0 <= call.step /\ call.step < N) =>
        /\ colors.err = "none"
        /\ Len(colors.cells) = N
        /\ NonBlack = 0..call.step
        /\ \A i \in NonBlack : colors.cells[i + 1] = DimBlue
        /\ call.step >= 1 =>
              /\ Lit(get_boot_sequence_frame("fill", call.step - 1)) = NonBlack \ {call.step}
              /\ call.step \in NonBlack
        /\ call.step = N - 1 => NonBlack = 0..(N - 1)
        /\ (N = RunnerLeds /\ call.step = BootFillFrames - 1) => NonBlack = 0..(N - 1)

\* the frame of index 5 on the ring of 24: cells 0..5 lit, 6..23 black
C13_Witness ==
    /\ FillCalled
    /\ N = RunnerLeds
    /\ call.step = 5
    /\ colors.err = "none"
    /\ \A i \in 0..5 : colors.cells[i + 1] = DimBlue
    /\ \A i \in 6..23 : colors.cells[i + 1] = BlackCell

ShutdownFrameCalled(phase) ==
    call.fn = "get_shutdown_sequence_frame" /\ call.phase = phase

White == <<Full, Full, Full>>

\* C14: get_shutdown_sequence_frame('wipe', step) sets the cells [0..step)
\* to white and leaves the rest black, so that at step = N every cell is
\* white, and get_shutdown_sequence_frame('pulse', s) is the uniform gray
\* frame of intensity s.
C14_WipeAndPulse ==
    N > 0 =>
        /\ (ShutdownFrameCalled("wipe") /\ 0 <= call.step /\ call.step <= N) =>
              /\ colors.err = "none"
              /\ \A i \in 0..(N - 1) :
                    colors.cells[i + 1] = IF i < call.step THEN White ELSE BlackCell
        /\ ShutdownFrameCalled("pulse") =>
              /\ colors.err = "none"
              /\ colors.cells = Uniform(<<call.step, call.step, call.step>>)

SuccessWaveCalled == call.fn = "get_boot_sequence_frame" /\ call.phase = "success"

\* the shorter way round the ring between two cells of it
RingDistance(i, w) ==
    LET across == IF i < w THEN w - i ELSE i - w
    IN  IF across < N - across THEN across ELSE N - across

\* C15: for every N > 0 and all integers i and w, circular_distance is
\* symmetric and 0 <= d <= N/2; the frame of the success wave lights exactly
\* the cells whose distance from step mod N is less than 8, and the cell at
\* step mod N has full brightness.
C15_CircularDistance ==
    (SuccessWaveCalled /\ N > 0) =>
        /\ \A i \in Steps :
              LET d == circular_distance(i, call.step)
              IN  /\ d = circular_distance(call.step, i)
                  /\ 0 <= d
                  /\ 2 * d <= N
                  /\ d = RingDistance(wrap(i), wrap(call.step))
        /\ colors.err = "none"
        /\ NonBlack = {i \in 0..(N - 1) : RingDistance(i, wrap(call.step)) < WaveWidth}
        /\ colors.cells[wrap(call.step) + 1] = <<0, Full, 0>>

\* a wave on the ring of 24, centred by a step beyond the last cell
C15_Witness ==
    /\ SuccessWaveCalled
    /\ N = RunnerLeds
    /\ call.step = N + 1
    /\ colors.err = "none"
    /\ Cardinality(NonBlack) = 2 * WaveWidth - 1
    /\ colors.cells[1 + 1] = <<0, Full, 0>>
    /\ colors.cells[(N - 1) + 1] # BlackCell
    /\ colors.cells[12 + 1] = BlackCell

\* C16: no controller with num_leds <= 0 is ever constructed, so no frame
\* function is ever evaluated on a ring of size N <= 0.
C16_NoFrameWithoutLeds == call.fn # "none" => N > 0

\* the calls whose step or position argument becomes a cell index
IndexUsing ==
    \/ LoadingCalled
    \/ /\ call.fn = "get_boot_sequence_frame"
       /\ call.phase \in {"fill", "spin", "success"}
    \/ ShutdownFrameCalled("spin")

\* the list assignments the call makes
CallWrites ==
    CASE LoadingCalled -> loading_writes(call.step)
      [] FillCalled -> fill_writes(call.step)
      [] SuccessWaveCalled -> wave_writes(call.step)
      [] ShutdownFrameCalled("spin") -> spin_writes(call.step, <<Full, 0, 0>>)
      [] OTHER -> spin_writes(call.step, CyanBlue)

\* C17: for every N > 0 and every integer step or position, negative ones
\* and ones >= N included, each index-using frame function returns a frame
\* without raising, and every cell index it writes lies in [0, N).
C17_TotalWithWraparound ==
    (IndexUsing /\ N > 0) =>
        /\ colors.err = "none"
        /\ \A k \in 1..Len(CallWrites) :
              0 <= CallWrites[k].idx /\ CallWrites[k].idx < N

\* the call returned a frame
Returns == call.fn # "none" /\ colors.err = "none"

\* C18: every frame a frame function produces has exactly N cells, and
\* every cell the function did not set is (0, 0, 0).
C18_FrameLength ==
    Returns =>
        /\ Len(colors.cells) = N
        /\ IndexUsing =>
              \A i \in NonBlack : \E k \in 1..Len(CallWrites) : CallWrites[k].idx = i

----------------------------------------------------------------------------
(* Properties of led_interactive.py, under FairSpecRunner *)

\* main() is at animation_thread.join()
Joining == main_pc = "join"

\* C19: once main() has set current_animation to None and waits in join(),
\* the animation thread, whichever animation it runs and wherever it is in
\* it, eventually returns, and main() gets past the join with no thread left
\* alive.
C19_CancelledSequenceStops ==
    Joining ~> (Alive = {} /\ main_pc \in {"select", "clear"})

\* main() waits for a thread that is in the middle of an animation
C19_Witness ==
    /\ Joining
    /\ current_animation = "None"
    /\ Alive # {}
    /\ animation_thread.anim \in {"loading", "tracking", "error", "boot", "shutdown"}
    /\ animation_thread.step > 0

----------------------------------------------------------------------------
(* Properties of the loading loops, under SpecVisualizer and SpecRunner *)

\* C20: from one tick of the visualizer's loading loop to the next, the
\* position passed to get_loading_frame advances by +1 modulo the ring size.
C20_PositionAdvances ==
    [][position' # position => position' = (position + 1) % num_leds]_vars

\* the same in LEDAnimationRunner.loading_animation, whose position is the
\* step of the loading thread: it does advance by +1 modulo 24
RunnerPositionAdvances ==
    [][\A i \in DOMAIN threads :
          (/\ main_pc' = main_pc
           /\ threads[i].anim = "loading"
           /\ is_alive(threads'[i])
           /\ threads'[i].step # threads[i].step)
          => threads'[i].step = (threads[i].step + 1) % RunnerLeds]_vars

----------------------------------------------------------------------------
(* Properties of led_interactive.py, under SpecRunner: teardown *)

\* the ring is black from main()'s clear(), no animation is selected and
\* the key being handled, if any, is not an animation key
Cleared ==
    /\ pixels = Black("main")
    /\ current_animation = "None"
    /\ key \notin AnimationKeys
    /\ Alive = {}

\* thread i returns from shutdown_sequence in this step
ShutdownEnds(i) ==
    /\ main_pc' = main_pc
    /\ threads[i].anim = "shutdown"
    /\ is_alive(threads[i])
    /\ ~is_alive(threads'[i])

\* C21: main() reaches clear() only when no animation thread is alive; from
\* then on the ring stays black and no thread is alive until an animation
\* key is pressed; and the step in which shutdown_sequence returns, run to
\* its end or aborted, leaves the ring black.
C21_CleanTeardown ==
    /\ [](main_pc = "clear" => Alive = {})
    /\ [][Cleared => /\ pixels' = Black("main")
                     /\ key' \notin AnimationKeys => Cleared']_vars
    /\ [][\A i \in DOMAIN threads : ShutdownEnds(i) => pixels' = Black("shutdown")]_vars

\* 'c' or 'q' has been handled after an animation thread had been running
\* and had written to the ring
C21_Witness ==
    /\ Cleared
    /\ main_pc \in {"get_key", "exited"}
    /\ threads # <<>>
    /\ animation_thread.anim \in {"loading", "tracking", "error", "shutdown"}

----------------------------------------------------------------------------
(* Properties of led_interactive.py, under SpecRunner: colours *)

\* the ring shows a frame of the final fade of boot_sequence
InCrossfade == pixels.by = "boot" /\ pixels.phase = "fade"

\* C22 as it is stated: at some step of 0..19 the additive blend of
\* (0, 1 - progress, 0) and (progress, progress, progress), progress =
\* step / 20, has a green channel greater than 1.0.
C22_GreenExceedsOne ==
    \E step \in 0..(BootFadeFrames - 1) :
        \E i \in 1..N : crossfade(step)[i][2] > Full

\* C22, amended: at every step of 0..19 the additive blend is
\* (progress, 1.0, progress): its green channel is exactly 1.0, never more.
C22_GreenStaysOne ==
    InCrossfade =>
        /\ pixels.step \in 0..(BootFadeFrames - 1)
        /\ \A i \in 1..N :
              LET cell == FrameColors(pixels, {})[i]
                  progress == (pixels.step * Full) \div 20
              IN  cell = <<progress, Full, progress>>

\* the last frame of the crossfade is on the ring
C22_Witness ==
    /\ InCrossfade
    /\ pixels.step = BootFadeFrames - 1
    /\ FrameColors(pixels, {})[1][2] = Full
    /\ FrameColors(pixels, {})[1][1] > 0

\* every channel of every cell is in [0, 1] and converts to a byte
InRange(cells) ==
    \A i \in 1..Len(cells) : \A c \in 1..3 :
        /\ 0 <= cells[i][c]
        /\ cells[i][c] <= Full
        /\ to_byte(cells[i][c]) \in 0..255

\* C23: every frame an animation of LEDAnimationRunner passes to
\* _update_pixels, whatever the outcome of the sparkles' random draws, has
\* 24 cells whose three channels are all in [0, 1], so that int(c * 255) is
\* in 0..255.
C23_ChannelsInRange ==
    LET draws == IF pixels.by = "success" THEN SparkleSets ELSE {{}}
    IN  \A sparkles \in draws :
            LET cells == FrameColors(pixels, sparkles)
            IN  /\ Len(cells) = RunnerLeds
                /\ InRange(cells)

\* a sparkle frame in which brightness + 0.3 is above 1.0 and is clamped
C23_Witness ==
    /\ pixels.by = "success"
    /\ pixels.phase = "sparkle"
    /\ sparkle_brightness(pixels.step) + (Full * 3) \div 10 > Full
    /\ FrameColors(pixels, {1})[1] = <<0, Full, 0>>
    /\ FrameColors(pixels, {1})[2] = <<0, sparkle_brightness(pixels.step), 0>>

----------------------------------------------------------------------------
(* Properties of led_controller.py, under SpecFrames: hidden state *)

\* what the call returns on a controller none of whose frame functions has
\* been called before: its writes on a fresh [(0, 0, 0)] * num_leds
PristineFrame ==
    CASE IndexUsing ->
           IF N = 0 /\ ~FillCalled THEN Raise("ZeroDivisionError")
           ELSE Store(Uniform(BlackCell), CallWrites)
      [] call.fn = "get_tracking_frame" -> get_tracking_frame(call.step)
      [] call.fn = "get_error_frame" -> get_error_frame(call.step)
      [] call.fn = "get_boot_sequence_frame" ->
           get_boot_sequence_frame(call.phase, call.step)
      [] ShutdownFrameCalled("fade") -> get_shutdown_sequence_frame("fade", call.step)
      [] OTHER -> Ok(Uniform(BlackCell))

\* C24: no call of a frame function changes current_mode, is_powered,
\* num_leds, loading_tail or spin_tail; the memoized black array, once
\* there is one, is [(0, 0, 0)] * num_leds after every call; and every frame
\* function other than get_success_frame returns, after any calls before
\* it, the frame it returns on a controller that has made no call.
C24_NoHiddenState ==
    /\ [][UNCHANGED <<current_mode, is_powered, N, loading_tail, spin_tail>>]_vars
    /\ [](black_cache.filled => black_cache.cells = Uniform(BlackCell))
    /\ []((call.fn \notin {"none", "get_success_frame"}) => colors = PristineFrame)

\* a tracking frame, which does not touch the black array, returned on a
\* controller whose black array an earlier call has memoized
C24_Witness ==
    /\ call.fn = "get_tracking_frame"
    /\ call.step = Full
    /\ N = RunnerLeds
    /\ black_cache.filled
    /\ Len(black_cache.cells) = N
    /\ colors = Ok(Uniform(<<Full, Full, Full>>))

============================================================================
